---- MODULE Spec2Model ----
(***************************************************************************)
(* media_manager/utils.py: the filename-parsing pipeline.                  *)
(*                                                                         *)
(* A Python str is a sequence of characters; a character is a one-letter   *)
(* TLA+ string, except the two non-ASCII characters N_APOS and MOD_APOS,   *)
(* which are named by their code points.  Optional values (year,           *)
(* show_info, season, episodes, episode_title) are None == <<>> or         *)
(* Some(v) == <<v>>.  The input alphabet holds no newline, so "$" of the   *)
(* extension pattern is the end of the string.                             *)
(***************************************************************************)
EXTENDS Integers, Sequences, FiniteSets, TLC

VARIABLES filename, typed, call, ret

vars == <<filename, typed, call, ret>>

----------------------------------------------------------------------------
(* Bounds of the exploration *)

MaxPieces == 4

----------------------------------------------------------------------------
(* Optional values *)

None == << >>

Some(v) == <<v>>

----------------------------------------------------------------------------
(* Characters and the str methods the code calls *)

UpperCase ==
  <<"A","B","C","D","E","F","G","H","I","J","K","L","M",
    "N","O","P","Q","R","S","T","U","V","W","X","Y","Z">>

LowerCase ==
  <<"a","b","c","d","e","f","g","h","i","j","k","l","m",
    "n","o","p","q","r","s","t","u","v","w","x","y","z">>

Digits == <<"0","1","2","3","4","5","6","7","8","9">>

\* U+0149 LATIN SMALL LETTER N PRECEDED BY APOSTROPHE: lowercase, and its
\* titlecase is the two characters U+02BC "N".
N_APOS == "U+0149"

\* U+02BC MODIFIER LETTER APOSTROPHE: caseless.
MOD_APOS == "U+02BC"

RangeOf(s) == { s[i] : i \in 1..Len(s) }

IndexIn(tbl, c) == CHOOSE i \in 1..Len(tbl) : tbl[i] = c

IsDigit(c) == c \in RangeOf(Digits)

\* \s of the split pattern and the whitespace of str.split() and str.strip():
\* the whitespace characters input may hold
Whitespace == {" ", "\t"}

\* the character, or "" (no character) outside the string
At(s, i) == IF i \in 1..Len(s) THEN s[i] ELSE ""

\* one character of str.lower()
lower_char(c) ==
  IF c \in RangeOf(UpperCase) THEN LowerCase[IndexIn(UpperCase, c)] ELSE c

\* the titlecase mapping of one character (the first step of str.capitalize())
title_char(c) ==
  IF c \in RangeOf(LowerCase) THEN <<UpperCase[IndexIn(LowerCase, c)]>>
  ELSE IF c = N_APOS THEN <<MOD_APOS, "N">>
  ELSE <<c>>

\* str.lower()
lower(s) == [i \in 1..Len(s) |-> lower_char(s[i])]

\* str.capitalize(): the first character titlecased, the rest lowercased
capitalize(s) ==
  IF s = << >> THEN << >>
  ELSE title_char(s[1]) \o lower(SubSeq(s, 2, Len(s)))

\* str.strip(chars), with the set of characters to strip
strip(s, chars) ==
  LET keep == { i \in 1..Len(s) : s[i] \notin chars }
  IN  IF keep = {} THEN << >>
      ELSE SubSeq(s, CHOOSE i \in keep : \A j \in keep : i <= j,
                     CHOOSE i \in keep : \A j \in keep : j <= i)

\* str.strip(): whitespace at both ends
strip_ws(s) == strip(s, Whitespace)

\* int() of a string of decimal digits
RECURSIVE int(_)
int(ds) ==
  IF ds = << >> THEN 0
  ELSE 10 * int(SubSeq(ds, 1, Len(ds) - 1)) + (IndexIn(Digits, ds[Len(ds)]) - 1)

\* str() of a natural number
RECURSIVE str(_)
str(n) ==
  IF n < 10 THEN <<Digits[n + 1]>>
  ELSE Append(str(n \div 10), Digits[(n % 10) + 1])

\* list(range(a, b))
range(a, b) == [i \in 1..(IF b > a THEN b - a ELSE 0) |-> a + i - 1]

\* " ".join(words)
RECURSIVE join(_)
join(words) ==
  IF words = << >> THEN << >>
  ELSE IF Len(words) = 1 THEN words[1]
  ELSE words[1] \o <<" ">> \o join(Tail(words))

\* the parts of s from position i on, cut at the characters of seps, empty
\* parts kept, cur being the part begun: re.split of a one-character class
RECURSIVE split_from(_, _, _, _)
split_from(s, i, cur, seps) ==
  IF i > Len(s) THEN <<cur>>
  ELSE IF s[i] \in seps THEN <<cur>> \o split_from(s, i + 1, << >>, seps)
  ELSE split_from(s, i + 1, Append(cur, s[i]), seps)

\* str.split(" "): empty words kept
split_on_space(text) == split_from(text, 1, << >>, Whitespace)

\* str.split(): the maximal runs of non-whitespace
split(text) == SelectSeq(split_from(text, 1, << >>, Whitespace), LAMBDA w : w # << >>)

----------------------------------------------------------------------------
(* clean_parts *)

junk ==
  { <<"7","2","0","p">>, <<"1","0","8","0","p">>, <<"2","1","6","0","p">>,
    <<"x","2","6","4">>, <<"x","2","6","5">>, <<"h","2","6","4">>,
    <<"b","l","u","r","a","y">>, <<"w","e","b","r","i","p">>,
    <<"h","d","r","i","p">> }

\* (\.[^.]+)+$ matches s from position i to its end
ext_run_at(s, i) ==
  /\ At(s, i) = "."
  /\ s[Len(s)] # "."
  /\ \A j \in i..(Len(s) - 1) : ~(s[j] = "." /\ s[j + 1] = ".")

\* re.sub(r"(\.[^.]+)+$", "", filename): the leftmost match is removed
strip_extensions(s) ==
  LET starts == { i \in 1..Len(s) : ext_run_at(s, i) }
  IN  IF starts = {} THEN s
      ELSE SubSeq(s, 1, (CHOOSE i \in starts : \A j \in starts : i <= j) - 1)

\* (19|20)\d{2} matches at position i
year_at(s, i) ==
  /\ <<At(s, i), At(s, i + 1)>> \in { <<"1","9">>, <<"2","0">> }
  /\ IsDigit(At(s, i + 2))
  /\ IsDigit(At(s, i + 3))

\* re.search(r"(19|20)\d{2}", name), then int(pattern.group())
search_year(name) ==
  LET starts == { i \in 1..Len(name) : year_at(name, i) }
  IN  IF starts = {} THEN None
      ELSE LET i == CHOOSE i \in starts : \A j \in starts : i <= j
           IN  Some(int(SubSeq(name, i, i + 3)))

\* the group with the hyphen required: -E?(\d{2})
last_episode_at_hyphen(s, p) ==
  LET dd(k) == IsDigit(At(s, k)) /\ IsDigit(At(s, k + 1))
      isE(k) == At(s, k) \in {"E", "e"}
  IN  IF At(s, p) = "-" /\ isE(p + 1) /\ dd(p + 2) THEN Some(SubSeq(s, p + 2, p + 3))
      ELSE IF At(s, p) = "-" /\ dd(p + 1) THEN Some(SubSeq(s, p + 1, p + 2))
      ELSE None

\* (?:-?E?(\d{2}))? at position p: group 3, or None
last_episode_at(s, p) ==
  LET dd(k) == IsDigit(At(s, k)) /\ IsDigit(At(s, k + 1))
      isE(k) == At(s, k) \in {"E", "e"}
  IN  IF At(s, p) = "-" /\ isE(p + 1) /\ dd(p + 2) THEN Some(SubSeq(s, p + 2, p + 3))
      ELSE IF At(s, p) = "-" /\ dd(p + 1) THEN Some(SubSeq(s, p + 1, p + 2))
      ELSE IF isE(p) /\ dd(p + 1) THEN Some(SubSeq(s, p + 1, p + 2))
      ELSE IF dd(p) THEN Some(SubSeq(s, p, p + 1))
      ELSE None

\* (\d{1,2})[xE](\d{2})(?:-?E?(\d{2}))? at position k, the season's digits
\* taken greedily: the groups, or None
season_episode_at(s, k) ==
  LET rest(q, n) ==
        IF /\ At(s, q) \in {"x", "X", "e", "E"}
           /\ IsDigit(At(s, q + 1))
           /\ IsDigit(At(s, q + 2))
        THEN Some([group1 |-> SubSeq(s, k, k + n - 1),
                   group2 |-> SubSeq(s, q + 1, q + 2),
                   group3 |-> last_episode_at(s, q + 3)])
        ELSE None
  IN  IF IsDigit(At(s, k)) /\ IsDigit(At(s, k + 1)) /\ rest(k + 2, 2) # None
      THEN rest(k + 2, 2)
      ELSE IF IsDigit(At(s, k)) THEN rest(k + 1, 1)
      ELSE None

\* the whole pattern at position i, S? taken greedily
show_pattern_at(s, i) ==
  IF At(s, i) \in {"S", "s"} /\ season_episode_at(s, i + 1) # None
  THEN season_episode_at(s, i + 1)
  ELSE season_episode_at(s, i)

\* re.search(r"S?(\d{1,2})[xE](\d{2})(?:-?E?(\d{2}))?", name, re.IGNORECASE)
search_show(name) ==
  LET starts == { i \in 1..Len(name) : show_pattern_at(name, i) # None }
  IN  IF starts = {} THEN None
      ELSE show_pattern_at(name, CHOOSE i \in starts : \A j \in starts : i <= j)

\* the episodes list built from the match
episodes_of(pattern) ==
  LET episode == int(pattern.group2)
      last_episode == pattern.group3
  IN  IF last_episode # None
      THEN range(episode, int(last_episode[1]) + 1)
      ELSE <<episode>>

\* show_info = (season, episodes), or None
detect_show(name) ==
  LET pattern == search_show(name)
  IN  IF pattern = None THEN None
      ELSE Some([season |-> int(pattern[1].group1),
                 episodes |-> episodes_of(pattern[1])])

\* re.split(r"[.\-_\s]", name)
split_parts(name) == split_from(name, 1, << >>, {".", "-", "_"} \cup Whitespace)

\* part.strip("()[]").lower()
token_of(part) == lower(strip(part, {"(", ")", "[", "]"}))

\* the year test of the loop: the token is skipped
is_year_token(token, year) == year # None /\ token = str(year[1])

\* the junk test of the loop: the token is kept
not_junk(token) == token \notin junk

\* the loop with the junk test made on the raw part, not on the token
filter_parts_junk_on_part(parts, year) ==
  LET kept == SelectSeq(parts, LAMBDA part :
                ~is_year_token(token_of(part), year) /\ not_junk(part))
  IN  [i \in 1..Len(kept) |-> token_of(kept[i])]

\* the loop with the year test made on the raw part, not on the token
filter_parts_year_on_part(parts, year) ==
  LET kept == SelectSeq(parts, LAMBDA part :
                ~is_year_token(part, year) /\ not_junk(token_of(part)))
  IN  [i \in 1..Len(kept) |-> token_of(kept[i])]

\* the loop over the parts
filter_parts(parts, year) ==
  LET tokens == [i \in 1..Len(parts) |-> token_of(parts[i])]
  IN  SelectSeq(tokens, LAMBDA token : ~is_year_token(token, year) /\ not_junk(token))

clean_parts(fname, detect_year, detect_show_info) ==
  LET name == strip_extensions(fname)
      year == IF detect_year THEN search_year(name) ELSE None
      show_info == IF detect_show_info THEN detect_show(name) ELSE None
  IN  [cleaned_parts |-> filter_parts(split_parts(name), year),
       year |-> year,
       show_info |-> show_info]

----------------------------------------------------------------------------
(* smart_title *)

SMALL_WORDS ==
  { <<"a">>, <<"a","n">>, <<"a","n","d">>, <<"a","s">>, <<"a","t">>,
    <<"b","u","t">>, <<"b","y">>, <<"f","o","r">>, <<"i","n">>,
    <<"n","o","r">>, <<"o","f">>, <<"o","n">>, <<"o","r">>,
    <<"p","e","r">>, <<"t","h","e">>, <<"t","o">>, <<"v","s">>,
    <<"v","i","a">> }

\* one word of the loop, at 0-based position i
title_word(i, word) ==
  IF i = 0 \/ lower(word) \notin SMALL_WORDS THEN capitalize(word) ELSE lower(word)

\* the titled words joined with "" instead of " "
smart_title_no_separator(text) ==
  LET words == split(text)
      titled == [k \in 1..Len(words) |-> title_word(k - 1, words[k])]
      RECURSIVE concat(_)
      concat(ws) == IF ws = << >> THEN << >> ELSE ws[1] \o concat(Tail(ws))
  IN  concat(titled)

smart_title(text) ==
  LET words == split(text)
  IN  join([k \in 1..Len(words) |-> title_word(k - 1, words[k])])

----------------------------------------------------------------------------
(* parse_movie *)

parse_movie(fname) ==
  LET r == clean_parts(fname, TRUE, FALSE)
  IN  [title |-> smart_title(strip_ws(join(r.cleaned_parts))), year |-> r.year]
----------------------------------------------------------------------------
(* parse_show *)

\* any(str(episode) == part for episode in episodes)
is_episode_token(part, episodes) ==
  \E k \in 1..Len(episodes) : str(episodes[k]) = part

\* cleaned_parts[a:b], with the code's 0-based indices
slice(parts, a, b) == SubSeq(parts, a + 1, b)

\* the first loop: the 0-based index of the first episode token from i on,
\* or len(cleaned_parts)
RECURSIVE first_episode_index(_, _, _)
first_episode_index(parts, episodes, i) ==
  IF i >= Len(parts) THEN Len(parts)
  ELSE IF is_episode_token(parts[i + 1], episodes) THEN i
  ELSE first_episode_index(parts, episodes, i + 1)

\* the second loop: from 0-based index i on, with last_episode_index = last
\* so far, until the first token that is no episode token
RECURSIVE last_episode_run(_, _, _, _)
last_episode_run(parts, episodes, i, last) ==
  IF i >= Len(parts) THEN last
  ELSE IF is_episode_token(parts[i + 1], episodes)
       THEN last_episode_run(parts, episodes, i + 1, i)
  ELSE last

\* season, episodes = show_info; episodes stays None without show_info
episodes_in(show_info) == IF show_info # None THEN show_info[1].episodes ELSE << >>

\* token_index initialised to 0 instead of len(cleaned_parts)
token_index_from_zero(cleaned_parts, show_info) ==
  IF show_info # None
  THEN first_episode_index(cleaned_parts, episodes_in(show_info), 0)
  ELSE 0

\* token_index after the first loop
token_index_of(cleaned_parts, show_info) ==
  IF show_info # None
  THEN first_episode_index(cleaned_parts, episodes_in(show_info), 0)
  ELSE Len(cleaned_parts)

\* the second loop left out: last_episode_index stays token_index
last_episode_index_no_run(cleaned_parts, show_info, token_index) == token_index

\* last_episode_index after the second loop
last_episode_index_of(cleaned_parts, show_info, token_index) ==
  last_episode_run(cleaned_parts, episodes_in(show_info), token_index, token_index)

\* episode_title, given last_episode_index
episode_title_of(cleaned_parts, show_info, last_episode_index) ==
  IF show_info # None /\ last_episode_index + 1 < Len(cleaned_parts)
  THEN Some(smart_title(strip_ws(join(
         slice(cleaned_parts, last_episode_index + 1, Len(cleaned_parts))))))
  ELSE None

\* the returned dict, given the result of clean_parts
show_result(cleaned_parts, show_info) ==
  [title |-> smart_title(strip_ws(join(
               slice(cleaned_parts, 0, token_index_of(cleaned_parts, show_info))))),
   season |-> IF show_info # None THEN Some(show_info[1].season) ELSE None,
   episodes |-> IF show_info # None THEN Some(show_info[1].episodes) ELSE None,
   episode_title |->
     episode_title_of(cleaned_parts, show_info,
       last_episode_index_of(cleaned_parts, show_info,
                             token_index_of(cleaned_parts, show_info)))]

parse_show(fname) ==
  show_result(clean_parts(fname, FALSE, TRUE).cleaned_parts,
              clean_parts(fname, FALSE, TRUE).show_info)

----------------------------------------------------------------------------
(* The callers: a filename is typed piece by piece, then one function of   *)
(* the module is called on it (smart_title takes it as its text).          *)

NoCall == [fn |-> "none", detect_year |-> FALSE, detect_show_info |-> FALSE]

\* release names of movies
MoviePieces ==
  { <<"T","h","e">>,
    <<"T","h","e",".","M","a","t","r","i","x">>,
    <<".","1","9","9","9">>,
    <<".","1","0","8","0","p">>,
    <<".","m","k","v">>,
    <<"_","(","1","9","9","9",")">>,
    <<"_","2","0","0","1">>,
    <<"_","1","0","8","0","P">>,
    <<" ","[","B","l","u","R","a","y","]">> }

\* release names of episodes
ShowPieces ==
  { <<"S","h","o","w">>,
    <<"_","S","0","1","E","0","2">>,
    <<".","S","0","1","E","0","2">>,
    <<"_","1","x","0","5">>,
    <<"_","5">>,
    <<"_","T","i","t","l","e">>,
    <<".","T","i","t","l","e">>,
    <<" ">>,
    <<".","m","k","v">> }

\* season/episode markers and what may follow them
MarkerPieces ==
  { <<"S","0","1","E","0","5">>,
    <<"1","x","0","5">>,
    <<"-">>,
    <<"E">>,
    <<"e">>,
    <<"0","3">>,
    <<"0","7">>,
    <<"_">>,
    <<".","m","k","v">> }

\* texts to title-case
TitlePieces ==
  { <<"t","h","e">>,
    <<" ","O","F">>,
    <<"l","O","r","d">>,
    <<" ">>,
    <<"-">>,
    <<"9">>,
    <<N_APOS>> }

Init ==
  /\ filename = << >>
  /\ typed = 0
  /\ call = NoCall
  /\ ret = None

Type(pieces) ==
  /\ call = NoCall
  /\ typed < MaxPieces
  /\ \E p \in pieces : filename' = filename \o p
  /\ typed' = typed + 1
  /\ UNCHANGED <<call, ret>>

CallCleanParts ==
  /\ call = NoCall
  /\ \E detect_year \in BOOLEAN, detect_show_info \in BOOLEAN :
       /\ call' = [fn |-> "clean_parts", detect_year |-> detect_year,
                   detect_show_info |-> detect_show_info]
       /\ ret' = clean_parts(filename, detect_year, detect_show_info)
  /\ UNCHANGED <<filename, typed>>

\* clean_parts as parse_show calls it
CallCleanPartsShow ==
  /\ call = NoCall
  /\ call' = [fn |-> "clean_parts", detect_year |-> FALSE, detect_show_info |-> TRUE]
  /\ ret' = clean_parts(filename, FALSE, TRUE)
  /\ UNCHANGED <<filename, typed>>

CallSmartTitle ==
  /\ call = NoCall
  /\ call' = [fn |-> "smart_title", detect_year |-> FALSE, detect_show_info |-> FALSE]
  /\ ret' = smart_title(filename)
  /\ UNCHANGED <<filename, typed>>

CallParseMovie ==
  /\ call = NoCall
  /\ call' = [fn |-> "parse_movie", detect_year |-> TRUE, detect_show_info |-> FALSE]
  /\ ret' = parse_movie(filename)
  /\ UNCHANGED <<filename, typed>>

CallParseShow ==
  /\ call = NoCall
  /\ call' = [fn |-> "parse_show", detect_year |-> FALSE, detect_show_info |-> TRUE]
  /\ ret' = parse_show(filename)
  /\ UNCHANGED <<filename, typed>>

TypeMovie == Type(MoviePieces)

TypeShow == Type(ShowPieces)

TypeMarker == Type(MarkerPieces)

TypeTitle == Type(TitlePieces)

NextMovie == TypeMovie \/ CallCleanParts \/ CallParseMovie

NextShow == TypeShow \/ CallParseShow \/ CallParseMovie

NextMarker == TypeMarker \/ CallCleanPartsShow

NextTitle == TypeTitle \/ CallSmartTitle

SpecMovie == Init /\ [][NextMovie]_vars

SpecShow == Init /\ [][NextShow]_vars

SpecMarker == Init /\ [][NextMarker]_vars

SpecTitle == Init /\ [][NextTitle]_vars

Next == NextMovie \/ NextShow \/ NextMarker \/ NextTitle

Spec == Init /\ [][Next]_vars
----------------------------------------------------------------------------
(* Properties of clean_parts and parse_movie, under SpecMovie *)

IsLetter(c) == c \in RangeOf(UpperCase) \cup RangeOf(LowerCase)

IsWord(f) == f # << >> /\ \A i \in 1..Len(f) : IsLetter(f[i])

IsYearField(f) ==
  /\ Len(f) = 4
  /\ <<f[1], f[2]>> \in { <<"1","9">>, <<"2","0">> }
  /\ IsDigit(f[3])
  /\ IsDigit(f[4])

\* the filename cut at its dots
DotFields == split_from(filename, 1, << >>, {"."})

\* words separated by dots, then a year, a junk tag and one extension
MovieShape ==
  LET n == Len(DotFields)
  IN  /\ n >= 4
      /\ \A i \in 1..(n - 3) : IsWord(DotFields[i])
      /\ IsYearField(DotFields[n - 2])
      /\ DotFields[n - 1] \in junk
      /\ IsWord(DotFields[n])

MovieShapeWords == [i \in 1..(Len(DotFields) - 3) |-> lower(DotFields[i])]

MovieShapeYear == int(DotFields[Len(DotFields) - 2])

\* C1: for a filename of dot-separated words followed by a year, a junk tag
\* and one extension, clean_parts(filename, True, False) returns the
\* lowercased words and the year, and parse_movie returns the words
\* title-cased and the year.
C1_MovieExample ==
  MovieShape =>
    /\ (call.fn = "clean_parts" /\ call.detect_year /\ ~call.detect_show_info) =>
         /\ ret.cleaned_parts = MovieShapeWords
         /\ ret.year = Some(MovieShapeYear)
    /\ call.fn = "parse_movie" =>
         /\ ret.title = smart_title(join(MovieShapeWords))
         /\ ret.year = Some(MovieShapeYear)

\* the parts of the name as split, before they are normalised
RawParts == split_parts(strip_extensions(filename))

\* C4: whatever the flags, no token returned by clean_parts is a member of
\* the junk set.
C4_NoJunkToken ==
  call.fn = "clean_parts" =>
    \A i \in 1..Len(ret.cleaned_parts) : ret.cleaned_parts[i] \notin junk

\* clean_parts has returned tokens for a name with a junk tag in upper case
\* and one in brackets
C4_Witness ==
  /\ call.fn = "clean_parts"
  /\ ret.cleaned_parts # << >>
  /\ \E i \in 1..Len(RawParts) :
       /\ RawParts[i] \notin junk
       /\ lower(RawParts[i]) \in junk
  /\ \E i \in 1..Len(RawParts) :
       /\ lower(RawParts[i]) \notin junk
       /\ token_of(RawParts[i]) \in junk

\* C5: with detect_year=True, no token equals the decimal string of a
\* detected year, and without a detected year the tokens are all the
\* normalised parts that are not junk.
C5_NoYearToken ==
  (call.fn = "clean_parts" /\ call.detect_year) =>
    /\ ret.year # None =>
         \A i \in 1..Len(ret.cleaned_parts) : ret.cleaned_parts[i] # str(ret.year[1])
    /\ ret.year = None =>
         ret.cleaned_parts =
           SelectSeq([i \in 1..Len(RawParts) |-> token_of(RawParts[i])],
                     LAMBDA token : token \notin junk)

\* a year was detected and a bracketed part that normalises to it was dropped,
\* other tokens being returned
C5_Witness ==
  /\ call.fn = "clean_parts"
  /\ call.detect_year
  /\ ret.year # None
  /\ ret.cleaned_parts # << >>
  /\ \E i \in 1..Len(RawParts) :
       /\ RawParts[i] # str(ret.year[1])
       /\ token_of(RawParts[i]) = str(ret.year[1])

\* no year was detected and every non-junk normalised part was returned
C5_WitnessNoYear ==
  /\ call.fn = "clean_parts"
  /\ call.detect_year
  /\ ret.year = None
  /\ Len(ret.cleaned_parts) >= 2
  /\ Len(ret.cleaned_parts) < Len(RawParts)
----------------------------------------------------------------------------
(* Properties of parse_show and of the titles, under SpecShow *)

\* the filename cut at its delimiters
DelimFields == split_from(filename, 1, << >>, {".", "-", "_"} \cup Whitespace)

IsMarker(f) ==
  /\ Len(f) = 6
  /\ f[1] = "S" /\ IsDigit(f[2]) /\ IsDigit(f[3])
  /\ f[4] = "E" /\ IsDigit(f[5]) /\ IsDigit(f[6])

\* where the marker stands in a filename of the shape
\* <title words> S<ss>E<ee> <episode-title words>.<ext>, or 0
ShowShapeMarker ==
  LET n == Len(DelimFields)
      at == { m \in 2..(n - 2) :
                /\ IsMarker(DelimFields[m])
                /\ \A i \in (1..n) \ {m} : IsWord(DelimFields[i]) }
  IN  IF Len(DotFields) >= 2 /\ IsWord(DotFields[Len(DotFields)]) /\ at # {}
      THEN CHOOSE m \in at : TRUE
      ELSE 0

\* C2: for a filename <title words> S<ss>E<ee> <episode-title words>.<ext>,
\* parse_show returns the title-cased words before the marker as title, the
\* marker's season and episode, and the title-cased words after the marker
\* as episode_title.
C2_ShowExample ==
  (call.fn = "parse_show" /\ ShowShapeMarker # 0) =>
    LET m == ShowShapeMarker
        n == Len(DelimFields)
    IN  /\ ret.title = smart_title(join(SubSeq(DelimFields, 1, m - 1)))
        /\ ret.season = Some(int(SubSeq(DelimFields[m], 2, 3)))
        /\ ret.episodes = Some(<<int(SubSeq(DelimFields[m], 5, 6))>>)
        /\ ret.episode_title = Some(smart_title(join(SubSeq(DelimFields, m + 1, n - 1))))

\* a season/episode marker - a digit, x or E, two digits - stands somewhere in s
HasMarker(s) ==
  \E i \in 1..Len(s) :
    /\ IsDigit(s[i])
    /\ At(s, i + 1) \in {"x", "X", "e", "E"}
    /\ IsDigit(At(s, i + 2))
    /\ IsDigit(At(s, i + 3))

\* the tokens parse_show works on
ShowTokens == clean_parts(filename, FALSE, TRUE).cleaned_parts

EpisodeTokens ==
  IF ret.episodes = None THEN {}
  ELSE { i \in 1..Len(ShowTokens) :
           \E k \in 1..Len(ret.episodes[1]) : ShowTokens[i] = str(ret.episodes[1][k]) }

\* the title-casing of the tokens after position k
TitleAfter(k) == smart_title(strip_ws(join(SubSeq(ShowTokens, k + 1, Len(ShowTokens)))))

C8_WitnessRun ==
  /\ call.fn = "parse_show"
  /\ ret.episode_title # None
  /\ ret.episode_title[1] # << >>
  /\ \E i \in EpisodeTokens : (i + 1) \in EpisodeTokens

IsSpace(c) == c \in Whitespace

\* no space at either end and no two spaces in a row
Normalised(t) ==
  /\ t # << >> => ~IsSpace(t[1]) /\ ~IsSpace(t[Len(t)])
  /\ \A i \in 1..(Len(t) - 1) : ~(IsSpace(t[i]) /\ IsSpace(t[i + 1]))

\* C10: the title of parse_movie and the title and episode_title of
\* parse_show have no leading or trailing space and no two consecutive
\* spaces, empty tokens or not.
C10_TitlesNormalised ==
  /\ call.fn \in {"parse_movie", "parse_show"} => Normalised(ret.title)
  /\ (call.fn = "parse_show" /\ ret.episode_title # None) =>
       Normalised(ret.episode_title[1])

\* titles of several words were returned for a name whose consecutive
\* delimiters put an empty token between two others
C10_Witness ==
  /\ call.fn = "parse_show"
  /\ ret.episode_title # None
  /\ \E i \in 1..Len(ret.episode_title[1]) : ret.episode_title[1][i] = " "
  /\ \E i \in 2..(Len(ShowTokens) - 1) :
       /\ ShowTokens[i] = << >>
       /\ ShowTokens[i - 1] # << >>
       /\ ShowTokens[i + 1] # << >>

----------------------------------------------------------------------------
(* Properties of the season/episode detection, under SpecMarker *)

\* the name the patterns are searched in
Name == strip_extensions(filename)

\* the positions of Name where x or E stands between a digit and two digits
SeparatorAt ==
  { q \in 2..Len(Name) :
      /\ IsDigit(Name[q - 1])
      /\ Name[q] \in {"x", "X", "e", "E"}
      /\ IsDigit(At(Name, q + 1))
      /\ IsDigit(At(Name, q + 2)) }

\* the separator of the leftmost marker
FirstSeparator == CHOOSE q \in SeparatorAt : \A r \in SeparatorAt : q <= r

\* the first captured episode number
FirstEpisode == int(SubSeq(Name, FirstSeparator + 1, FirstSeparator + 2))

TwoDigitsAt(k) == IsDigit(At(Name, k)) /\ IsDigit(At(Name, k + 1))

\* C3: whenever clean_parts returns a show_info, its episodes are non-empty,
\* contiguous and ascending, and start at the first captured episode number.
C3_EpisodesRun ==
  (call.fn = "clean_parts" /\ ret.show_info # None) =>
    LET episodes == ret.show_info[1].episodes
    IN  /\ episodes # << >>
        /\ episodes[1] = FirstEpisode
        /\ \A i \in 1..Len(episodes) : episodes[i] = episodes[1] + i - 1

\* C9 as stated: a second episode number is captured only after "-E" or "-"
\* and two digits; after any other continuation episodes = [first].
C9_HyphenOnly ==
  (call.fn = "clean_parts" /\ ret.show_info # None) =>
    LET p == FirstSeparator + 3
        hyphenated ==
          \/ At(Name, p) = "-" /\ TwoDigitsAt(p + 1)
          \/ At(Name, p) = "-" /\ At(Name, p + 1) \in {"E", "e"} /\ TwoDigitsAt(p + 2)
    IN  ~hyphenated => ret.show_info[1].episodes = <<FirstEpisode>>

\* where the digits of a second episode number would start: after an
\* optional "-" and an optional "E" or "e"
SecondEpisodeAt ==
  LET p == FirstSeparator + 3
      q == IF At(Name, p) = "-" THEN p + 1 ELSE p
  IN  IF At(Name, q) \in {"E", "e"} THEN q + 1 ELSE q

\* C9 amended: a second episode number is captured exactly when the first is
\* followed by an optional "-", an optional "E" or "e", and two digits; then
\* episodes = list(range(first, last + 1)), and otherwise episodes = [first].
C9_OptionalHyphenAndE ==
  (call.fn = "clean_parts" /\ ret.show_info # None) =>
    /\ SeparatorAt # {}
    /\ ret.show_info[1].episodes =
         IF TwoDigitsAt(SecondEpisodeAt)
         THEN LET last == int(SubSeq(Name, SecondEpisodeAt, SecondEpisodeAt + 1))
              IN  [i \in 1..(IF last >= FirstEpisode THEN last - FirstEpisode + 1 ELSE 0)
                     |-> FirstEpisode + i - 1]
         ELSE <<FirstEpisode>>

\* a second episode number was captured with no hyphen before it
C9_Witness ==
  /\ call.fn = "clean_parts"
  /\ ret.show_info # None
  /\ Len(ret.show_info[1].episodes) >= 2
  /\ At(Name, FirstSeparator + 3) # "-"

----------------------------------------------------------------------------
(* Properties of smart_title, under SpecTitle *)

IsAscii(c) == c \notin {N_APOS, MOD_APOS}

\* C6 as stated: smart_title(smart_title(text)) = smart_title(text) for
\* every text.
C6_Idempotent ==
  call.fn = "smart_title" => smart_title(ret) = ret

\* C6 amended: smart_title(smart_title(text)) = smart_title(text) for every
\* text of ASCII characters.
C6_IdempotentAscii ==
  (call.fn = "smart_title" /\ \A i \in 1..Len(filename) : IsAscii(filename[i])) =>
    smart_title(ret) = ret

\* an ASCII text of several words was title-cased and changed: its first
\* word, a small word, is capitalised and a later small word is lowercase
C6_Witness ==
  /\ call.fn = "smart_title"
  /\ \A i \in 1..Len(filename) : IsAscii(filename[i])
  /\ ret # filename
  /\ \E k \in 2..Len(split(ret)) : split(ret)[k] \in SMALL_WORDS
  /\ capitalize(split(ret)[1]) = split(ret)[1]
  /\ lower(split(ret)[1]) \in SMALL_WORDS

====
